---- MODULE Spec2Model ----
(***************************************************************************)
(* State-machine model of map_elites/variation.py: the VariationOperator   *)
(* event-loop object.  One variable per attribute the handlers read or     *)
(* write, one action per handler; evolve_batch is split at the three       *)
(* places where its effects become visible (claim, scatter, completion).   *)
(***************************************************************************)
EXTENDS Integers, Sequences, FiniteSets, TLC

\* ---------------------------------------------------------------- bounds
NumKeys == 3
MaxQueue == 1
MaxSubmitted == 4
MaxReported == 4
MaxAgents == 2
NumInstances == 2

\* ------------------------------------------------- configuration (cfg.*)
num_agents == 2
random_init == 1
random_init_batch == 2
eval_batch_size == 3
proportion_evo_num == 1
proportion_evo_den == 2
mutations_per_policy == 2

object_id == "variation_op"

\* Python's None, where a policy key is expected
NoKey == -1
\* the value self.crossover_op / self.mutation_op take when the stage is off
NoOp == "False"

\* A gene bound (max_gene / min_gene): the number given, or the default
\* False.  Python's False is the integer 0: "not False" and "not 0" are both
\* true, and torch.clamp takes False as the bound 0.
Gene(v) == [given |-> TRUE, value |-> v]
False == [given |-> FALSE, value |-> 0]

\* mutation_rate and the values torch.rand_like draws from [0, 1), both in
\* twentieths: 0, the default 0.05, and 1 (rates); 0, 0.05, 0.95 (draws)
Rates == {0, 1, 20}
RandValues == {0, 1, 19}

\* no constructor or operator call has been followed
NoCall == [op |-> "none"]

Keys == 0 .. (NumKeys - 1)
ProcessKinds == {"EventLoopProcess", "Process"}

VARIABLES
    crossover_op,       \* self.crossover_op, resolved in __init__
    mutation_op,        \* self.mutation_op, resolved in __init__
    init_mode,          \* self.init_mode
    free_policy_keys,   \* self.free_policy_keys
    queued_for_eval,    \* self.queued_for_eval
    eval_in_queue,      \* self.eval_in_queue
    eval_cache,         \* self.eval_cache: key -> mutations_per_policy slots
    elites_map,         \* self.elites_map, as the set of its elites' keys
    pc,                 \* position inside evolve_batch, "idle" between handlers
    frame,              \* evolve_batch's locals while a round is running
    attached,           \* the object is connected to its event loop
    loop_running,       \* the event loop has not been stopped
    emitted,            \* signals emitted by the last step
    logged,             \* log records written by the last step
    last_op,            \* the handler step that ran last, with its inputs
    in_flight,          \* history: keys put on eval_in_queue and not released
    submitted_total,    \* history: sum of len(actor_x_ids) over completed rounds
    reported_total,     \* history: sum of len(agents) over on_eval_results calls
    stopped,            \* history: on_stop has run
    max,                \* self.max
    min,                \* self.min
    mutation_rate,      \* self.mutation_rate, in units of 1 / RateScale
    call,               \* the constructor or operator call that ran last:
                        \* its arguments, its random draws and what it returned
    instances,          \* the VariationOperator instances that share
                        \* free_policy_keys, each with its place in evolve_batch
    args                \* the objects passed to the operator call that is
                        \* followed: the parents of evo, the tensors of an operator

vars == <<crossover_op, mutation_op, init_mode, free_policy_keys,
          queued_for_eval, eval_in_queue, eval_cache, elites_map, pc, frame,
          attached, loop_running, emitted, logged, last_op, in_flight,
          submitted_total, reported_total, stopped, max, min,
          mutation_rate, call, instances, args>>

\* what no handler of the event loop writes: the attributes __init__ sets
\* once, the record of the last operator call, and the other instances
cfgvars == <<crossover_op, mutation_op, init_mode, max, min, mutation_rate,
             call, instances, args>>

\* the variables the handlers of the event loop work on
loopvars == <<init_mode, free_policy_keys, queued_for_eval, eval_in_queue,
              eval_cache, elites_map, frame, attached, loop_running, emitted,
              in_flight, submitted_total, reported_total, stopped>>

\* ------------------------------------------------------------- helpers
Truthy(op) == op # NoOp

SetOf(s) == {s[i] : i \in 1 .. Len(s)}

\* np.random.choice(a, size=n, replace=False): every sequence of n distinct
\* elements of a
np_random_choice(a, n) ==
    {s \in [1 .. n -> a] : \A i, j \in 1 .. n : i # j => s[i] # s[j]}

\* np.repeat(s, repeats=r): each element r times, in place
np_repeat(s, r) == [p \in 1 .. (Len(s) * r) |-> s[((p - 1) \div r) + 1]]

\* list(set(ids)): CPython enumerates a set of small non-negative ints in
\* ascending order
list_set(S) ==
    CHOOSE s \in [1 .. Cardinality(S) -> S] :
        \A i, j \in 1 .. Cardinality(S) : i < j => s[i] < s[j]

\* round(x) of x = num / den >= 0: the nearest integer, a tie going to the
\* even neighbour
py_round(num, den) ==
    LET q == num \div den
        r == num % den
    IN  IF 2 * r < den THEN q
        ELSE IF 2 * r > den THEN q + 1
        ELSE IF q % 2 = 0 THEN q ELSE q + 1

\* int(x): truncation of eval_batch_size * proportion_evo (both positive)
int_trunc(num, den) == num \div den

\* the child evo() makes from the parents at one position of the batch,
\* named by the parent x whose copy it starts from (line 172)
child(x) == x

NoFrame == [init |-> TRUE, batch_size |-> 0, free_keys |-> {},
            actor_x_ids |-> <<>>,
            unique_actor_x_ids |-> <<>>, i |-> 0,
            free0 |-> {}]

\* ---------------------------------------------------------------- Init
Init ==
    /\ crossover_op \in {"iso_dd", NoOp}
    /\ mutation_op \in {"gaussian_mutation", NoOp}
    /\ init_mode = TRUE
    /\ free_policy_keys = Keys
    /\ queued_for_eval = 0
    /\ eval_in_queue = <<>>
    /\ eval_cache = [k \in Keys |-> [j \in 1 .. mutations_per_policy |-> child(NoKey)]]
    /\ elites_map = {}
    /\ pc = "idle"
    /\ frame = NoFrame
    /\ attached = TRUE
    /\ loop_running = TRUE
    /\ emitted = <<>>
    /\ logged = {}
    /\ last_op = [op |-> "__init__", outcome |-> "done", init |-> TRUE]
    /\ in_flight = {}
    /\ submitted_total = 0
    /\ reported_total = 0
    /\ stopped = FALSE
    /\ max = False
    /\ min = False
    /\ mutation_rate = 1
    /\ call = NoCall
    /\ instances = <<>>
    /\ args = <<>>

\* ------------------------------------------------- event-loop dispatch
\* A slot of this object runs only while the object is attached to a
\* running event loop, and only between handlers: a handler runs to its end
\* before the loop dispatches the next one.
Dispatchable == attached /\ loop_running /\ pc = "idle"

\* ------------------------------------------------------- evolve_batch
\* line 105 / line 109
batch_size_of(init) ==
    IF init THEN random_init_batch
    ELSE int_trunc(eval_batch_size * proportion_evo_num, proportion_evo_den)

\* faulty variant: the archive is not consulted in steady state either
candidate_keys_all(init) == free_policy_keys

\* line 106 / line 110
candidate_keys(init) ==
    IF init THEN free_policy_keys
    ELSE elites_map

\* line 112
free_keys_of(init) == free_policy_keys \cap candidate_keys(init)

\* lines 118-129: the parents drawn, <<actor_x_ids, actor_y_ids>> before
\* np.repeat.  actor_y_ids only feeds the tensors of the children (lines
\* 135-141), so the round's frame keeps actor_x_ids alone.
parent_draws(free_keys, batch_size) ==
    IF Truthy(mutation_op) /\ ~Truthy(crossover_op)
    THEN {<<x, <<>>>> : x \in np_random_choice(free_keys, batch_size)}
    ELSE IF Truthy(crossover_op)
    THEN np_random_choice(free_keys, batch_size) \X np_random_choice(free_keys, batch_size)
    ELSE {<<(<<>>), (<<>>)>>}

\* faulty variant: the parents of the round stay in the free set
claim_keeps(free, actor_x_ids) == free

\* line 132: self.free_policy_keys -= set(actor_x_ids)
claim(free, actor_x_ids) == free \ SetOf(actor_x_ids)

\* faulty variant: the skipped round still takes the free candidates it found
evolve_batch_starved_claims(init, caller) ==
    /\ Cardinality(free_keys_of(init)) < batch_size_of(init)
    /\ free_policy_keys' = free_policy_keys \ free_keys_of(init)
    /\ in_flight' = in_flight \cup free_keys_of(init)
    /\ logged' = {<<"warn", "not enough free policies available to mutate">>}
    /\ emitted' = <<>>
    /\ last_op' = [op |-> caller, outcome |-> "starved", init |-> init]
    /\ UNCHANGED <<cfgvars, queued_for_eval, eval_in_queue,
                   eval_cache, elites_map, pc, frame, attached, loop_running,
                   submitted_total, reported_total, stopped>>

\* lines 103-117, the round is skipped
evolve_batch_starved(init, caller) ==
    /\ Cardinality(free_keys_of(init)) < batch_size_of(init)
    /\ logged' = {<<"warn", "not enough free policies available to mutate">>}
    /\ emitted' = <<>>
    /\ last_op' = [op |-> caller, outcome |-> "starved", init |-> init]
    /\ UNCHANGED <<cfgvars, free_policy_keys, queued_for_eval, eval_in_queue,
                   eval_cache, elites_map, pc, frame, attached, loop_running,
                   in_flight, submitted_total, reported_total, stopped>>

\* lines 103-132, the round goes on: parents drawn and claimed
evolve_batch_draw(init, caller) ==
    LET batch_size == batch_size_of(init)
        free_keys == free_keys_of(init)
    IN  /\ ~(Cardinality(free_keys) < batch_size)
        /\ \E d \in parent_draws(free_keys, batch_size) :
             LET actor_x_ids == np_repeat(d[1], mutations_per_policy)
                 unique == list_set(SetOf(actor_x_ids))
             IN  /\ free_policy_keys' = claim(free_policy_keys, actor_x_ids)
                 /\ frame' = [init |-> init, batch_size |-> batch_size,
                              free_keys |-> free_keys,
                              actor_x_ids |-> actor_x_ids,
                              unique_actor_x_ids |-> unique,
                              i |-> 1,
                              free0 |-> free_policy_keys]
                 /\ pc' = IF Len(unique) = 0 THEN "complete" ELSE "scatter"
        /\ logged' = {<<"debug", IF init THEN "Initializing the map of elites with random policies"
                                 ELSE "Mutating policies from the map of elites">>}
        /\ emitted' = <<>>
        /\ last_op' = [op |-> caller, outcome |-> "claimed", init |-> init]
        /\ UNCHANGED <<cfgvars, queued_for_eval, eval_in_queue, eval_cache,
                       elites_map, attached, loop_running, in_flight,
                       submitted_total, reported_total, stopped>>

\* the same, while eval_in_queue has room and the total submitted stays
\* within MaxSubmitted
evolve_batch_claim(init, caller) ==
    /\ Len(eval_in_queue) < MaxQueue
    /\ submitted_total + batch_size_of(init) * mutations_per_policy <= MaxSubmitted
    /\ evolve_batch_draw(init, caller)

evolve_batch_begin(init, caller) ==
    \/ evolve_batch_starved(init, caller)
    \/ evolve_batch_claim(init, caller)

\* lines 134-147: actors_z, one child per position of actor_x_ids
actors_z(f) == [p \in 1 .. Len(f.actor_x_ids) |-> child(f.actor_x_ids[p])]

\* lines 148-150, one turn of the outer loop: row i of actors_z goes into
\* the slots of the i-th unique key
scatter_row(cache, f) ==
    [cache EXCEPT ![f.unique_actor_x_ids[f.i]] =
        [j \in 1 .. mutations_per_policy |->
            actors_z(f)[(f.i - 1) * mutations_per_policy + j]]]

\* faulty variant: the loop ends after its first turn
evolve_batch_scatter_once ==
    /\ pc = "scatter"
    /\ eval_cache' = scatter_row(eval_cache, frame)
    /\ frame' = [frame EXCEPT !.i = @ + 1]
    /\ pc' = "complete"
    /\ logged' = {}
    /\ emitted' = <<>>
    /\ last_op' = [op |-> "evolve_batch", outcome |-> "scatter", init |-> frame.init]
    /\ UNCHANGED <<cfgvars, free_policy_keys, queued_for_eval, eval_in_queue,
                   elites_map, attached, loop_running, in_flight,
                   submitted_total, reported_total, stopped>>

evolve_batch_scatter ==
    /\ pc = "scatter"
    /\ eval_cache' = scatter_row(eval_cache, frame)
    /\ frame' = [frame EXCEPT !.i = @ + 1]
    /\ pc' = IF frame.i = Len(frame.unique_actor_x_ids) THEN "complete" ELSE "scatter"
    /\ logged' = {}
    /\ emitted' = <<>>
    /\ last_op' = [op |-> "evolve_batch", outcome |-> "scatter", init |-> frame.init]
    /\ UNCHANGED <<cfgvars, free_policy_keys, queued_for_eval, eval_in_queue,
                   elites_map, attached, loop_running, in_flight,
                   submitted_total, reported_total, stopped>>

\* line 153: self.to_evaluate.emit(self.object_id, self.init_mode)
to_evaluate(f) == [signal |-> "to_evaluate", oid |-> object_id, init_mode |-> init_mode]

\* faulty variant: every child is counted twice
after_submit_twice(queued, actor_x_ids) == queued + 2 * Len(actor_x_ids)

\* line 151: self.queued_for_eval += len(actor_x_ids)
after_submit(queued, actor_x_ids) == queued + Len(actor_x_ids)

\* lines 151-153
evolve_batch_complete ==
    /\ pc = "complete"
    /\ queued_for_eval' = after_submit(queued_for_eval, frame.actor_x_ids)
    /\ eval_in_queue' = Append(eval_in_queue, frame.unique_actor_x_ids)
    /\ emitted' = <<to_evaluate(frame)>>
    /\ in_flight' = in_flight \cup SetOf(frame.unique_actor_x_ids)
    /\ submitted_total' = submitted_total + Len(frame.actor_x_ids)
    /\ pc' = "idle"
    /\ frame' = NoFrame
    /\ logged' = {}
    /\ last_op' = [op |-> "evolve_batch", outcome |-> "completed", init |-> frame.init]
    /\ UNCHANGED <<cfgvars, free_policy_keys, eval_cache, elites_map, attached,
                   loop_running, reported_total, stopped>>

\* a direct call of the slot evolve_batch(init)
evolve_batch ==
    /\ Dispatchable
    /\ \E init \in BOOLEAN : evolve_batch_begin(init, "evolve_batch")

\* --------------------------------------------- maybe_mutate_new_batch
\* faulty variant: the comparison with the watermark is not strict
below_watermark_le(q) == q <= 2 * num_agents

\* line 94
below_watermark(q) == q < 2 * num_agents

\* line 95
archive_needs_init == Cardinality(elites_map) <= random_init

maybe_mutate_new_batch ==
    /\ Dispatchable
    /\ IF below_watermark(queued_for_eval)
       THEN evolve_batch_begin(archive_needs_init, "maybe_mutate_new_batch")
       ELSE /\ logged' = {}
            /\ emitted' = <<>>
            /\ last_op' = [op |-> "maybe_mutate_new_batch", outcome |-> "throttled",
                            init |-> archive_needs_init]
            /\ UNCHANGED <<cfgvars, free_policy_keys, queued_for_eval,
                           eval_in_queue, eval_cache, elites_map, pc, frame,
                           attached, loop_running, in_flight, submitted_total,
                           reported_total, stopped>>

\* lines 93-96 when nothing but the timer starts rounds: the watermark of
\* line 94 is then what keeps the counter bounded, so the total submitted
\* is left without a cap of its own
timer_tick ==
    /\ Dispatchable
    /\ IF below_watermark(queued_for_eval)
       THEN \/ evolve_batch_starved(archive_needs_init, "maybe_mutate_new_batch")
            \/ /\ Len(eval_in_queue) < MaxQueue
               /\ evolve_batch_draw(archive_needs_init, "maybe_mutate_new_batch")
       ELSE /\ logged' = {}
            /\ emitted' = <<>>
            /\ last_op' = [op |-> "maybe_mutate_new_batch", outcome |-> "throttled",
                            init |-> archive_needs_init]
            /\ UNCHANGED <<cfgvars, free_policy_keys, queued_for_eval,
                           eval_in_queue, eval_cache, elites_map, pc, frame,
                           attached, loop_running, in_flight, submitted_total,
                           reported_total, stopped>>

\* ---------------------------------------------------- on_eval_results
\* lines 85-88; agents is a list of num_eval processed agents
\* line 87
\* faulty variant: one is taken off per call, whatever the number of agents
after_results_one(queued, num_eval) == queued - 1

\* faulty variant: the counter is kept from going below zero
after_results_clamped(queued, num_eval) ==
    IF queued - num_eval < 0 THEN 0 ELSE queued - num_eval

after_results(queued, num_eval) == queued - num_eval

\* line 88
results_log == {<<"debug", "Received processed agents">>}

on_eval_results ==
    /\ Dispatchable
    /\ \E num_eval \in 0 .. MaxAgents :
         /\ reported_total + num_eval <= MaxReported
         /\ queued_for_eval' = after_results(queued_for_eval, num_eval)
         /\ reported_total' = reported_total + num_eval
    /\ last_op' = [op |-> "on_eval_results", outcome |-> "done", init |-> FALSE]
    /\ logged' = results_log
    /\ emitted' = <<>>
    /\ UNCHANGED <<cfgvars, free_policy_keys, eval_in_queue, eval_cache,
                   elites_map, pc, frame, attached, loop_running, in_flight,
                   submitted_total, stopped>>

\* --------------------------------------------------------- on_release
\* faulty variant: the set is replaced by the released keys
release_assign(free, mapped_actors_keys) == mapped_actors_keys

\* line 91: self.free_policy_keys.update(mapped_actors_keys)
release(free, mapped_actors_keys) == free \cup mapped_actors_keys

\* lines 90-91
on_release ==
    /\ Dispatchable
    /\ \E mapped_actors_keys \in SUBSET Keys :
         /\ free_policy_keys' = release(free_policy_keys, mapped_actors_keys)
         /\ in_flight' = in_flight \ mapped_actors_keys
    /\ last_op' = [op |-> "on_release", outcome |-> "done", init |-> FALSE]
    /\ logged' = {}
    /\ emitted' = <<>>
    /\ UNCHANGED <<cfgvars, queued_for_eval, eval_in_queue, eval_cache,
                   elites_map, pc, frame, attached, loop_running,
                   submitted_total, reported_total, stopped>>

\* ------------------------------------------------------------ on_stop
\* line 80
stop_signal == [signal |-> "stop", oid |-> object_id]

\* faulty variant: the loop is stopped under every host
loop_after_stop_always(process_kind) == FALSE

\* lines 81-82: the loop is stopped only when an EventLoopProcess hosts it
loop_after_stop(process_kind) ==
    IF process_kind = "EventLoopProcess" THEN FALSE ELSE loop_running

\* line 83: detach() takes the object, its timer connection included, off
\* the event loop
detach == FALSE

\* lines 79-83; process_kind is the class of self.event_loop.process
on_stop ==
    /\ Dispatchable
    /\ \E process_kind \in ProcessKinds :
         /\ loop_running' = loop_after_stop(process_kind)
         /\ last_op' = [op |-> "on_stop", init |-> FALSE,
                         outcome |-> IF process_kind = "EventLoopProcess"
                                     THEN "loop_stopped" ELSE "loop_left_running"]
    /\ emitted' = <<stop_signal>>
    /\ attached' = detach
    /\ stopped' = TRUE
    /\ logged' = {}
    /\ UNCHANGED <<cfgvars, free_policy_keys, queued_for_eval, eval_in_queue,
                   eval_cache, elites_map, pc, frame, in_flight,
                   submitted_total, reported_total>>

\* ------------------------------------------------------- collaborators
\* The archive (the only writer of elites_map) makes key k the elite of a
\* niche, or replaces the elite that k backed.  A policy slot backs at most
\* one elite, so the map is followed as the set of its keys: len(elites_map)
\* is its size and [x[0] for x in elites_map.values()] its members.
archive_update ==
    /\ pc = "idle"
    /\ attached
    /\ \E k \in Keys :
         elites_map' = IF k \in elites_map THEN elites_map \ {k}
                       ELSE elites_map \cup {k}
    /\ emitted' = <<>>
    /\ logged' = {}
    /\ last_op' = [op |-> "archive_update", outcome |-> "done", init |-> FALSE]
    /\ UNCHANGED <<cfgvars, free_policy_keys, queued_for_eval, eval_in_queue,
                   eval_cache, pc, frame, attached, loop_running, in_flight,
                   submitted_total, reported_total, stopped>>

\* the evaluator takes the oldest key list off eval_in_queue
evaluator_get ==
    /\ pc = "idle"
    /\ attached
    /\ Len(eval_in_queue) > 0
    /\ eval_in_queue' = Tail(eval_in_queue)
    /\ emitted' = <<>>
    /\ logged' = {}
    /\ last_op' = [op |-> "evaluator_get", outcome |-> "done", init |-> FALSE]
    /\ UNCHANGED <<cfgvars, free_policy_keys, queued_for_eval, eval_cache,
                   elites_map, pc, frame, attached, loop_running, in_flight,
                   submitted_total, reported_total, stopped>>

Next ==
    \/ maybe_mutate_new_batch
    \/ evolve_batch
    \/ evolve_batch_scatter
    \/ evolve_batch_complete
    \/ on_eval_results
    \/ on_release
    \/ on_stop
    \/ archive_update
    \/ evaluator_get

Spec == Init /\ [][Next]_vars

\* ---------------------------------------------------- timer-driven runs
\* an evaluator that reports no more agents than were submitted to it
on_eval_results_submitted ==
    /\ on_eval_results
    /\ reported_total' <= submitted_total

\* the archive gets seeded past random_init: from then on the timer's
\* rounds are steady-state rounds
archive_seeded ==
    /\ pc = "idle"
    /\ attached
    /\ elites_map = {}
    /\ elites_map' = Keys
    /\ emitted' = <<>>
    /\ logged' = {}
    /\ last_op' = [op |-> "archive_update", outcome |-> "done", init |-> FALSE]
    /\ UNCHANGED <<cfgvars, free_policy_keys, queued_for_eval, eval_in_queue,
                   eval_cache, pc, frame, attached, loop_running, in_flight,
                   submitted_total, reported_total, stopped>>

\* an operator with the mutation stage alone (the second parent of a
\* crossover changes nothing the counter depends on)
InitTimer ==
    /\ Init
    /\ crossover_op = NoOp
    /\ mutation_op = "gaussian_mutation"

\* Rounds are started by the timer alone, and the evaluator never reports
\* more than it was given.
NextTimer ==
    \/ timer_tick
    \/ evolve_batch_scatter
    \/ evolve_batch_complete
    \/ on_eval_results_submitted
    \/ on_release
    \/ archive_seeded
    \/ evaluator_get

SpecTimer == InitTimer /\ [][NextTimer]_vars

\* ============================================================= __init__
\* The constructor, followed from the call to its return or to the
\* exception it ends with.  pc is "new" before the call, "idle" once the
\* object is built, "raised" when the call ended with an exception.

\* names cfg.crossover_op may carry: the spec's three and one nobody knows
CrossoverNames == {"iso_dd", "sbx", "none", "blend"}

\* names cfg.mutation_op may carry: the spec's four, and the code's own
MutationNames == {"polynomial_mutation", "gaussian_mutation", "uniform_mutation",
                  "polynomial", "gaussian", "uniform", "none"}

\* the gene bounds a caller may pass
MaxGenes == {False, Gene(0), Gene(1)}
MinGenes == {False, Gene(0), Gene(-1)}

\* the operators class VariationOperator defines (lines 212, 236); these
\* are the names getattr(self, name) finds
OperatorMethods == {"iso_dd", "gaussian_mutation"}

\* line 46
crossover_listed(name) == name \in {"sbx", "iso_dd"}

\* line 52
mutation_listed(name) == name \in {"polynomial_mutation", "gaussian_mutation",
                                   "uniform_mutation"}

\* getattr(self, name) raises AttributeError for a name the class lacks
getattr_raises(name) == name \notin OperatorMethods

\* lines 46-50: <<self.crossover_op, log records>>
resolve_crossover(name) ==
    IF crossover_listed(name) THEN <<name, {}>>
    ELSE <<NoOp, {<<"warn", "Not using the crossover operator">>}>>

\* lines 52-56
resolve_mutation(name) ==
    IF mutation_listed(name) THEN <<name, {}>>
    ELSE <<NoOp, {<<"warn", "Not using the mutation operator">>}>>

InitNew ==
    /\ crossover_op = "unset"
    /\ mutation_op = "unset"
    /\ init_mode = TRUE
    /\ free_policy_keys = Keys
    /\ queued_for_eval = 0
    /\ eval_in_queue = <<>>
    /\ eval_cache = [k \in Keys |-> [j \in 1 .. mutations_per_policy |-> child(NoKey)]]
    /\ elites_map = {}
    /\ pc = "new"
    /\ frame = NoFrame
    /\ attached = FALSE
    /\ loop_running = TRUE
    /\ emitted = <<>>
    /\ logged = {}
    /\ last_op = [op |-> "none", outcome |-> "done", init |-> TRUE]
    /\ in_flight = {}
    /\ submitted_total = 0
    /\ reported_total = 0
    /\ stopped = FALSE
    /\ max = False
    /\ min = False
    /\ mutation_rate = 1
    /\ call = NoCall
    /\ instances = <<>>
    /\ args = <<>>

\* lines 13-71, for one choice of its arguments
construct(cfg_crossover_op, cfg_mutation_op, max_gene, min_gene) ==
    LET c == resolve_crossover(cfg_crossover_op)
        m == resolve_mutation(cfg_mutation_op)
    IN  /\ pc = "new"
        /\ call' = [op |-> "__init__", cfg_crossover_op |-> cfg_crossover_op,
                    cfg_mutation_op |-> cfg_mutation_op,
                    max_gene |-> max_gene, min_gene |-> min_gene]
        /\ IF Truthy(c[1]) /\ getattr_raises(c[1])
           THEN \* line 47 raises
                /\ pc' = "raised"
                /\ logged' = {}
                /\ last_op' = [op |-> "__init__", outcome |-> "AttributeError",
                               init |-> TRUE]
                /\ UNCHANGED <<crossover_op, mutation_op, max, min, attached>>
           ELSE IF Truthy(m[1]) /\ getattr_raises(m[1])
           THEN \* line 53 raises
                /\ pc' = "raised"
                /\ crossover_op' = c[1]
                /\ logged' = c[2]
                /\ last_op' = [op |-> "__init__", outcome |-> "AttributeError",
                               init |-> TRUE]
                /\ UNCHANGED <<mutation_op, max, min, attached>>
           ELSE /\ pc' = "idle"
                /\ crossover_op' = c[1]
                /\ mutation_op' = m[1]
                /\ max' = max_gene
                /\ min' = min_gene
                /\ logged' = c[2] \cup m[2]
                /\ attached' = TRUE
                /\ last_op' = [op |-> "__init__", outcome |-> "done", init |-> TRUE]
        /\ UNCHANGED <<init_mode, free_policy_keys, queued_for_eval,
                       eval_in_queue, eval_cache, elites_map, frame,
                       loop_running, emitted, in_flight, submitted_total,
                       reported_total, stopped, mutation_rate, instances,
                       args>>

VariationOperator ==
    \E cfg_crossover_op \in CrossoverNames, cfg_mutation_op \in MutationNames,
       max_gene \in MaxGenes, min_gene \in MinGenes :
        construct(cfg_crossover_op, cfg_mutation_op, max_gene, min_gene)

NextNew == VariationOperator

SpecNew == InitNew /\ [][NextNew]_vars

\* ==================================================== shared free set
\* Several VariationOperator instances, each on an event loop of its own,
\* work on one free_policy_keys.  An instance's evolve_batch reads the set
\* at line 112 and writes it at line 132; nothing in between (no lock, no
\* single call that tests and removes) keeps another instance's lines 112
\* and 132 out, so the two are separate steps here.  Rounds are bootstrap
\* rounds with both operators configured.
Instances == 1 .. NumInstances

InitShared ==
    /\ crossover_op = "iso_dd"
    /\ mutation_op = "gaussian_mutation"
    /\ init_mode = TRUE
    /\ free_policy_keys = Keys
    /\ queued_for_eval = 0
    /\ eval_in_queue = <<>>
    /\ eval_cache = [k \in Keys |-> [j \in 1 .. mutations_per_policy |-> child(NoKey)]]
    /\ elites_map = {}
    /\ pc = "idle"
    /\ frame = NoFrame
    /\ attached = TRUE
    /\ loop_running = TRUE
    /\ emitted = <<>>
    /\ logged = {}
    /\ last_op = [op |-> "__init__", outcome |-> "done", init |-> TRUE]
    /\ in_flight = {}
    /\ submitted_total = 0
    /\ reported_total = 0
    /\ stopped = FALSE
    /\ max = False
    /\ min = False
    /\ mutation_rate = 1
    /\ call = NoCall
    /\ instances = [i \in Instances |->
                      [pc |-> "idle", free_keys |-> {}, actor_x_ids |-> <<>>,
                       held |-> {}]]
    /\ args = <<>>

\* lines 103-117 in instance i: too few free candidates, the round is skipped
shared_starved(i) ==
    /\ instances[i].pc = "idle"
    /\ Cardinality(free_keys_of(TRUE)) < batch_size_of(TRUE)
    /\ instances' = [instances EXCEPT ![i].free_keys = free_keys_of(TRUE)]
    /\ logged' = {<<"warn", "not enough free policies available to mutate">>}
    /\ last_op' = [op |-> "evolve_batch", outcome |-> "starved", init |-> TRUE]
    /\ UNCHANGED <<crossover_op, mutation_op, max, min, mutation_rate, call,
                   args, pc, loopvars>>

\* lines 103-129 in instance i: the free candidates are read and the
\* parents drawn from them
shared_draw(i) ==
    /\ instances[i].pc = "idle"
    /\ ~(Cardinality(free_keys_of(TRUE)) < batch_size_of(TRUE))
    /\ \E d \in parent_draws(free_keys_of(TRUE), batch_size_of(TRUE)) :
         instances' = [instances EXCEPT
                         ![i].pc = "drawn",
                         ![i].free_keys = free_keys_of(TRUE),
                         ![i].actor_x_ids = np_repeat(d[1], mutations_per_policy)]
    /\ logged' = {}
    /\ last_op' = [op |-> "evolve_batch", outcome |-> "drawn", init |-> TRUE]
    /\ UNCHANGED <<crossover_op, mutation_op, max, min, mutation_rate, call,
                   args, pc, loopvars>>

\* lines 131-153 in instance i: the drawn parents leave the shared set and
\* go to the evaluators
shared_claim(i) ==
    /\ instances[i].pc = "drawn"
    /\ free_policy_keys' = claim(free_policy_keys, instances[i].actor_x_ids)
    /\ instances' = [instances EXCEPT
                       ![i].pc = "idle",
                       ![i].held = @ \cup SetOf(instances[i].actor_x_ids),
                       ![i].actor_x_ids = <<>>]
    /\ logged' = {}
    /\ last_op' = [op |-> "evolve_batch", outcome |-> "completed", init |-> TRUE]
    /\ UNCHANGED <<crossover_op, mutation_op, init_mode, max, min,
                   mutation_rate, call, args, pc, queued_for_eval, eval_in_queue,
                   eval_cache, elites_map, frame, attached, loop_running,
                   emitted, in_flight, submitted_total, reported_total, stopped>>

\* lines 90-91 in instance i: keys it submitted come back
shared_release(i) ==
    /\ instances[i].pc = "idle"
    /\ \E mapped_actors_keys \in (SUBSET instances[i].held) \ {{}} :
         /\ free_policy_keys' = release(free_policy_keys, mapped_actors_keys)
         /\ instances' = [instances EXCEPT ![i].held = @ \ mapped_actors_keys]
    /\ logged' = {}
    /\ last_op' = [op |-> "on_release", outcome |-> "done", init |-> FALSE]
    /\ UNCHANGED <<crossover_op, mutation_op, init_mode, max, min,
                   mutation_rate, call, args, pc, queued_for_eval, eval_in_queue,
                   eval_cache, elites_map, frame, attached, loop_running,
                   emitted, in_flight, submitted_total, reported_total, stopped>>

NextShared ==
    \E i \in Instances :
        \/ shared_starved(i)
        \/ shared_draw(i)
        \/ shared_claim(i)
        \/ shared_release(i)

SpecShared == InitShared /\ [][NextShared]_vars

\* ============================================================ operators
\* evo and the two operators the class defines, as functions of their
\* arguments and of the random draws they make.  A tensor is its shape and
\* its elements by index (one coordinate per dimension, from 1); a state
\* dict maps tensor names to tensors.

\* number of elements of a tensor of rank 1, 2 or 3
numel(shape) ==
    IF Len(shape) = 1 THEN shape[1]
    ELSE IF Len(shape) = 2 THEN shape[1] * shape[2]
    ELSE shape[1] * shape[2] * shape[3]

\* the k-th index of a tensor in row-major order
unravel(shape, k) ==
    IF Len(shape) = 1 THEN <<k>>
    ELSE IF Len(shape) = 2
    THEN <<((k - 1) \div shape[2]) + 1, ((k - 1) % shape[2]) + 1>>
    ELSE <<((k - 1) \div (shape[2] * shape[3])) + 1,
           (((k - 1) \div shape[3]) % shape[2]) + 1,
           ((k - 1) % shape[3]) + 1>>

Indices(shape) == {unravel(shape, k) : k \in 1 .. numel(shape)}

Tensors(shape, V) == {[shape |-> shape, v |-> f] : f \in [Indices(shape) -> V]}

\* values of N(0, std) noise, and of the scalar b of iso_dd
Noise == {-1, 1}
LineValues == {-1, 1}

\* "not g" for a gene bound g: true of False and of 0
py_not(g) == g.value = 0

\* torch.clamp(t, lo, hi): min(max(t, lo), hi), element by element; False
\* counts as the bound 0
torch_clamp(t, lo, hi) ==
    [t EXCEPT !.v = [i \in DOMAIN t.v |->
        LET u == IF t.v[i] < lo.value THEN lo.value ELSE t.v[i]
        IN  IF u > hi.value THEN hi.value ELSE u]]

\* lines 225-229 and 252-255
clamp_rule(t) ==
    IF py_not(max) /\ py_not(min) THEN t ELSE torch_clamp(t, min, max)

\* lines 221-223: z = x.clone() + a + b * (y - x)
iso_dd_z(x, y, a, b) ==
    [x EXCEPT !.v = [i \in DOMAIN x.v |->
        x.v[i] + a.v[i] + b * (y.v[i] - x.v[i])]]

\* lines 212-229
iso_dd(x, y, a, b) == clamp_rule(iso_dd_z(x, y, a, b))

\* faulty variant: an element is selected when its draw equals the rate too
rand_selects_le(r, rate) == r <= rate

\* line 243: m < self.mutation_rate, for one element
rand_selects(r, rate) == r < rate

\* line 243: torch.where(m < self.mutation_rate), the selected indices in
\* row-major order; index[d] of the code is coordinate d + 1 of each
torch_where(m, rate) ==
    LET sel == {k \in 1 .. numel(m.shape) : rand_selects(m.v[unravel(m.shape, k)], rate)}
        order == CHOOSE o \in [1 .. Cardinality(sel) -> sel] :
                    \A p, q \in 1 .. Cardinality(sel) : p < q => o[p] < o[q]
    IN  [p \in 1 .. Cardinality(sel) |-> unravel(m.shape, order[p])]

\* lines 241-251: y = x.clone(), then delta added at the selected indices;
\* the indexing expression goes by the rank of y
gaussian_mutation_y(x, m, delta) ==
    LET index == torch_where(m, mutation_rate)
        at(p) == IF Len(x.shape) = 1 THEN <<index[p][1]>>
                 ELSE IF Len(x.shape) = 2 THEN <<index[p][1], index[p][2]>>
                 ELSE <<index[p][1], index[p][2], index[p][3]>>
        hits(i) == {p \in 1 .. Len(index) : at(p) = i}
    IN  [x EXCEPT !.v = [i \in DOMAIN x.v |->
            IF hits(i) = {} THEN x.v[i]
            ELSE x.v[i] + delta[CHOOSE p \in hits(i) : TRUE]]]

\* lines 236-255
gaussian_mutation(x, m, delta) == clamp_rule(gaussian_mutation_y(x, m, delta))

\* the draws of one call of iso_dd on a tensor of the given shape
iso_dd_draws(shape) == [a : Tensors(shape, Noise), b : LineValues]

\* the draws of one call of gaussian_mutation: the mask m and one delta per
\* selected element
gaussian_mutation_draws(shape) ==
    UNION {{[m |-> mm, delta |-> dd] :
                dd \in [1 .. Len(torch_where(mm, mutation_rate)) -> Noise]} :
           mm \in Tensors(shape, RandValues)}

\* names of the tensors of a policy's state dict: the Linear layers' and
\* the parameter of testing/jit_testing.py line 32
TensorNames == {"layers.0.weight", "layers.0.bias", "_action_log_std"}

\* part in name, for the two parts the code asks about
str_in(part, name) ==
    \/ part = "weight" /\ name \in {"layers.0.weight"}
    \/ part = "bias" /\ name \in {"layers.0.bias"}

\* truth value of a string: true unless empty
py_truthy(str) == str # ""

\* lines 201 and 208: 'weight' or 'bias' in tensor.  "in" binds tighter
\* than "or": the test is ('weight') or ('bias' in tensor)
tensor_taken(tensor) == py_truthy("weight") \/ str_in("bias", tensor)

\* lines 194-203; d gives the draws of crossover_op for each tensor
batch_crossover(batch_x_state_dict, batch_y_state_dict, d) ==
    [tensor \in DOMAIN batch_x_state_dict |->
        IF tensor_taken(tensor)
        THEN iso_dd(batch_x_state_dict[tensor], batch_y_state_dict[tensor],
                    d[tensor].a, d[tensor].b)
        ELSE batch_x_state_dict[tensor]]

\* lines 205-210; d gives the draws of mutation_op for each tensor
batch_mutation(batch_x_state_dict, d) ==
    [tensor \in DOMAIN batch_x_state_dict |->
        IF tensor_taken(tensor)
        THEN gaussian_mutation(batch_x_state_dict[tensor], d[tensor].m,
                               d[tensor].delta)
        ELSE batch_x_state_dict[tensor]]

\* faulty variant: with a crossover configured the mutation stage is left out
evo_crossover_alone(actor_x, actor_y, crossover, mutation, d) ==
    IF Truthy(crossover) THEN batch_crossover(actor_x, actor_y, d.crossover)
    ELSE IF Truthy(mutation) THEN batch_mutation(actor_x, d.mutation)
    ELSE actor_x

\* lines 165-192: the state dict of the child actor_z
evo(actor_x, actor_y, crossover, mutation, d) ==
    LET actor_z == actor_x
    IN  IF Truthy(crossover)
        THEN LET crossed == batch_crossover(actor_x, actor_y, d.crossover)
             IN  IF Truthy(mutation) THEN batch_mutation(crossed, d.mutation)
                 ELSE crossed
        ELSE IF Truthy(mutation) THEN batch_mutation(actor_z, d.mutation)
        ELSE actor_z

\* the draws of one call of evo; a stage that is off draws nothing
NoDraws == [tensor \in TensorNames |-> <<>>]

evo_draws(actor_x, crossover, mutation) ==
    [crossover : IF Truthy(crossover)
                 THEN [TensorNames -> iso_dd_draws(<<1>>)] ELSE {NoDraws},
     mutation : IF Truthy(mutation)
                THEN [TensorNames -> gaussian_mutation_draws(<<1>>)] ELSE {NoDraws}]

\* ------------------------------------------------- operator calls
\* the event loop's variables, at rest
LoopAtRest ==
    /\ init_mode = TRUE
    /\ free_policy_keys = Keys
    /\ queued_for_eval = 0
    /\ eval_in_queue = <<>>
    /\ eval_cache = [k \in Keys |-> [j \in 1 .. mutations_per_policy |-> child(NoKey)]]
    /\ elites_map = {}
    /\ pc = "idle"
    /\ frame = NoFrame
    /\ attached = TRUE
    /\ loop_running = TRUE
    /\ emitted = <<>>
    /\ logged = {}
    /\ last_op = [op |-> "__init__", outcome |-> "done", init |-> TRUE]
    /\ in_flight = {}
    /\ submitted_total = 0
    /\ reported_total = 0
    /\ stopped = FALSE
    /\ instances = <<>>

\* element values of the parents' one-element tensors
ParentXValues == {0, 2}
ParentYValues == {1}

\* shapes and element values of the tensors the operators are called on
Shapes == {<<2>>, <<1, 2>>, <<2, 1>>, <<1, 2, 1>>}
XValues == {-2, 0, 2}
YValues == {-1, 1}

\* an object as __init__ leaves it, about to evolve two parents
InitEvo ==
    /\ LoopAtRest
    /\ crossover_op \in {"iso_dd", NoOp}
    /\ mutation_op \in {"gaussian_mutation", NoOp}
    /\ \E bounds \in {<<False, False>>, <<Gene(1), Gene(-1)>>} :
         max = bounds[1] /\ min = bounds[2]
    /\ mutation_rate = 1
    /\ call = NoCall
    /\ args \in [kind : {"actors"},
                 actor_x : [TensorNames -> Tensors(<<1>>, ParentXValues)],
                 actor_y : [TensorNames -> Tensors(<<1>>, ParentYValues)]]

\* an object as __init__ leaves it, one of its operators about to be
\* called on tensors x and y of one shape
InitTensors ==
    /\ LoopAtRest
    /\ crossover_op = "iso_dd"
    /\ mutation_op = "gaussian_mutation"
    /\ max \in MaxGenes
    /\ min \in MinGenes
    /\ mutation_rate \in Rates
    /\ call = NoCall
    /\ \E shape \in Shapes :
         args \in [kind : {"tensors"}, x : Tensors(shape, XValues),
                   y : Tensors(shape, YValues)]

InitOps == InitEvo \/ InitTensors

\* line 141: self.evo(batch_actors_x, batch_actors_y, device,
\* self.crossover_op, self.mutation_op).  Every write of evo goes to a copy
\* (deepcopy at lines 172, 199, 206; clone at lines 223, 241), so the
\* parents are after the call what they were before it.
evo_call ==
    /\ call = NoCall
    /\ args.kind = "actors"
    /\ \E d \in evo_draws(args.actor_x, crossover_op, mutation_op) :
         call' = [op |-> "evo", args |-> args, draws |-> d,
                  result |-> evo(args.actor_x, args.actor_y, crossover_op,
                                 mutation_op, d)]
    /\ args' = args
    /\ UNCHANGED <<crossover_op, mutation_op, max, min, mutation_rate, pc,
                   logged, last_op, instances, loopvars>>

\* one call self.iso_dd(x, y)
iso_dd_call ==
    /\ call = NoCall
    /\ args.kind = "tensors"
    /\ \E d \in iso_dd_draws(args.x.shape) :
         call' = [op |-> "iso_dd", args |-> args, draws |-> d,
                  result |-> iso_dd(args.x, args.y, d.a, d.b)]
    /\ args' = args
    /\ UNCHANGED <<crossover_op, mutation_op, max, min, mutation_rate, pc,
                   logged, last_op, instances, loopvars>>

\* one call self.gaussian_mutation(x)
gaussian_mutation_call ==
    /\ call = NoCall
    /\ args.kind = "tensors"
    /\ \E d \in gaussian_mutation_draws(args.x.shape) :
         call' = [op |-> "gaussian_mutation", args |-> args, draws |-> d,
                  result |-> gaussian_mutation(args.x, d.m, d.delta)]
    /\ args' = args
    /\ UNCHANGED <<crossover_op, mutation_op, max, min, mutation_rate, pc,
                   logged, last_op, instances, loopvars>>

NextOps ==
    \/ evo_call
    \/ iso_dd_call
    \/ gaussian_mutation_call

SpecOps == InitOps /\ [][NextOps]_vars

\* ================================================================ claims
\* keys removed from free_policy_keys by the running round and not yet put
\* on eval_in_queue
claimed_for_mutation ==
    IF pc \in {"scatter", "complete"} THEN SetOf(frame.actor_x_ids) ELSE {}

\* C1: every policy key is in exactly one of free_policy_keys, the keys
\* claimed by the running round, and the keys in flight for evaluation;
\* no key is in two of them and none is lost.
C1_Exclusivity ==
    /\ free_policy_keys \cap claimed_for_mutation = {}
    /\ free_policy_keys \cap in_flight = {}
    /\ claimed_for_mutation \cap in_flight = {}
    /\ free_policy_keys \cup claimed_for_mutation \cup in_flight = Keys

\* a free key, a key claimed by the running round and a key in flight, at once
C1_Witness ==
    /\ free_policy_keys # {}
    /\ claimed_for_mutation # {}
    /\ in_flight # {}

\* a step that enters evolve_batch (from the timer or directly)
EntersRound == pc = "idle" /\ last_op'.outcome \in {"starved", "claimed"}

\* C2: a round whose free candidates are fewer than its batch size returns
\* with free_policy_keys, eval_cache, queued_for_eval and eval_in_queue
\* unchanged, emits nothing, logs the warning, and leaves the operator ready
\* for the next tick.
C2_StarvationSkip ==
    [][(EntersRound
        /\ Cardinality(free_keys_of(last_op'.init)) < batch_size_of(last_op'.init))
       => /\ UNCHANGED <<free_policy_keys, eval_cache, queued_for_eval,
                         eval_in_queue, in_flight>>
          /\ emitted' = <<>>
          /\ \E r \in logged' : r[1] = "warn"
          /\ last_op'.outcome = "starved"
          /\ pc' = "idle" /\ attached' /\ loop_running']_vars

\* a round was skipped although some keys were free
C2_Witness ==
    /\ last_op.outcome = "starved"
    /\ free_policy_keys # {}
    /\ Cardinality(free_keys_of(last_op.init)) < batch_size_of(last_op.init)

\* a step of the timer's callback
TimerTick == pc = "idle" /\ last_op'.op = "maybe_mutate_new_batch"

\* C3: a timer tick enters an evolution round if and only if
\* queued_for_eval < 2 * num_agents; otherwise it changes nothing and
\* emits nothing.
C3_SelfThrottling ==
    [][TimerTick
       => /\ (last_op'.outcome \in {"starved", "claimed"})
                <=> (queued_for_eval < 2 * num_agents)
          /\ (last_op'.outcome = "throttled")
                <=> ~(queued_for_eval < 2 * num_agents)
          /\ ~(queued_for_eval < 2 * num_agents)
                => /\ UNCHANGED <<free_policy_keys, eval_cache, queued_for_eval,
                                  eval_in_queue, pc, frame, in_flight>>
                   /\ emitted' = <<>>]_vars

\* a tick met the counter exactly at the watermark and did nothing
C3_Witness ==
    /\ last_op.op = "maybe_mutate_new_batch"
    /\ last_op.outcome = "throttled"
    /\ queued_for_eval = 2 * num_agents

\* the step that ends a round (lines 151-153)
CompletesRound == pc = "complete" /\ pc' = "idle"

\* C4: under every operator configuration a round that is not skipped
\* removes exactly batch_size distinct keys from free_policy_keys, all of
\* them free candidates before the round, adds batch_size *
\* mutations_per_policy to queued_for_eval, puts one list of those
\* batch_size keys on eval_in_queue and emits one to_evaluate signal.
C4_RoundEffect ==
    [][CompletesRound
       => LET X == frame.free0 \ free_policy_keys'
              put == eval_in_queue'[Len(eval_in_queue')]
          IN  /\ free_policy_keys' \subseteq frame.free0
              /\ Cardinality(X) = frame.batch_size
              /\ X \subseteq frame.free_keys
              /\ queued_for_eval' =
                    queued_for_eval + frame.batch_size * mutations_per_policy
              /\ Len(eval_in_queue') = Len(eval_in_queue) + 1
              /\ Len(put) = frame.batch_size
              /\ SetOf(put) = X
              /\ Len(emitted') = 1
              /\ emitted'[1].signal = "to_evaluate"]_vars

\* C5: the to_evaluate signal of a round carries the bootstrap flag the
\* round ran with.
C5_BootstrapFlag ==
    (last_op.op = "evolve_batch" /\ last_op.outcome = "completed")
        => /\ Len(emitted) = 1
           /\ emitted[1].signal = "to_evaluate"
           /\ emitted[1].init_mode = last_op.init

\* the claimed keys whose eval_cache slots the running round has filled
rows_written ==
    IF pc \in {"scatter", "complete"}
    THEN {frame.unique_actor_x_ids[r] : r \in 1 .. (frame.i - 1)}
    ELSE {}

\* C6: within a round a key leaves free_policy_keys before its eval_cache
\* slots are written, and the slots of every claimed key are written before
\* the key list is put on eval_in_queue and to_evaluate is emitted; while
\* the round runs no other handler takes a step, and whenever a handler may
\* run every key that is not free has been submitted.
C6_Ordering ==
    [][/\ (eval_cache' # eval_cache)
            => /\ pc = "scatter"
               /\ {k \in Keys : eval_cache'[k] # eval_cache[k]}
                     \subseteq claimed_for_mutation
               /\ claimed_for_mutation \cap free_policy_keys = {}
               /\ eval_in_queue' = eval_in_queue
               /\ emitted' = <<>>
       /\ (\/ Len(eval_in_queue') > Len(eval_in_queue)
           \/ (emitted' # <<>> /\ emitted'[1].signal = "to_evaluate"))
            => \/ UNCHANGED vars
               \/ /\ pc = "complete"
                  /\ rows_written = claimed_for_mutation
                  /\ claimed_for_mutation \cap free_policy_keys = {}
                  /\ eval_cache' = eval_cache
                  /\ free_policy_keys' = free_policy_keys
       /\ (pc # "idle")
            => \/ UNCHANGED vars
               \/ last_op'.outcome \in {"scatter", "completed"}
       /\ (pc' = "idle") => (free_policy_keys' \cup in_flight' = Keys)]_vars

\* in the middle of the scatter loop: one claimed key written, another not
C6_Witness ==
    /\ pc = "scatter"
    /\ rows_written # {}
    /\ rows_written # claimed_for_mutation

\* C7: queued_for_eval equals what completed rounds added minus what
\* on_eval_results calls reported; it is back at its starting value when the
\* two sums match and is not negative while the reported sum does not
\* exceed the submitted sum.
C7_CounterBalance ==
    /\ queued_for_eval = submitted_total - reported_total
    /\ (reported_total = submitted_total) => queued_for_eval = 0
    /\ (reported_total <= submitted_total) => queued_for_eval >= 0

\* everything submitted has been reported back
C7_Witness ==
    /\ submitted_total > 0
    /\ reported_total = submitted_total
    /\ last_op.op = "on_eval_results"

\* C8 as stated: an on_eval_results call that leaves queued_for_eval
\* negative records a warning.
C8_WarningOnNegative ==
    (last_op.op = "on_eval_results" /\ queued_for_eval < 0)
        => \E r \in logged : r[1] = "warn"

\* C8, amended: an on_eval_results call that reports more than was
\* submitted leaves queued_for_eval negative, neither reset nor clamped,
\* writes its debug record and no warning, and the operator stays ready for
\* further handlers.
C8_NegativeKept ==
    (last_op.op = "on_eval_results" /\ reported_total > submitted_total)
        => /\ queued_for_eval < 0
           /\ queued_for_eval = submitted_total - reported_total
           /\ logged # {}
           /\ \A r \in logged : r[1] = "debug"
           /\ Dispatchable

\* more reported than the rounds so far have submitted
C8_Witness ==
    /\ last_op.op = "on_eval_results"
    /\ submitted_total > 0
    /\ queued_for_eval < 0

\* C9: free_policy_keys gains members only in on_release, where it becomes
\* the old set united with the released keys and nothing else changes;
\* on_eval_results changes queued_for_eval alone.
C9_KeyReturnPath ==
    [][/\ ~(free_policy_keys' \subseteq free_policy_keys)
            => (pc = "idle" /\ last_op'.op = "on_release")
       /\ (pc = "idle" /\ last_op'.op = "on_release")
            => /\ free_policy_keys' =
                     free_policy_keys \cup (in_flight \ in_flight')
               /\ UNCHANGED <<queued_for_eval, eval_cache, eval_in_queue>>
       /\ (pc = "idle" /\ last_op'.op = "on_eval_results")
            => UNCHANGED <<free_policy_keys, eval_cache, eval_in_queue,
                           in_flight>>]_vars

\* a key whose slots a round has written is free again, another is still
\* in flight
C9_Witness ==
    /\ last_op.op = "on_release"
    /\ in_flight # {}
    /\ \E k \in free_policy_keys : eval_cache[k][1] # child(NoKey)

\* C10 as stated: after on_stop the stop signal is the last thing emitted,
\* nothing has run since, the object is off the loop and the loop is
\* stopped, whatever hosts it.
C10_StopTerminal ==
    stopped
        => /\ last_op.op = "on_stop"
           /\ emitted = <<stop_signal>>
           /\ pc = "idle"
           /\ ~attached
           /\ ~loop_running

\* C10, amended: as above, but the loop is stopped exactly when an
\* EventLoopProcess hosts it.
C10_StopDetaches ==
    stopped
        => /\ last_op.op = "on_stop"
           /\ emitted = <<stop_signal>>
           /\ pc = "idle"
           /\ ~attached
           /\ ~Dispatchable
           /\ loop_running <=> (last_op.outcome = "loop_left_running")
           /\ ~loop_running <=> (last_op.outcome = "loop_stopped")

\* stopped with keys still in flight, under a host whose loop keeps running
C10_Witness ==
    /\ stopped
    /\ loop_running
    /\ in_flight # {}

\* what a configured name stands for: the spec's operator names, and the
\* names the code's own tests know
SpecCrossoverOps == {"iso_dd", "sbx"}
SpecMutationOps == {"polynomial", "gaussian", "uniform",
                    "polynomial_mutation", "gaussian_mutation", "uniform_mutation"}

\* C11: for every crossover_op in {iso_dd, sbx, none} and every mutation_op
\* in {polynomial, gaussian, uniform, none} the constructor returns an
\* object whose stages are the configured operators; a name that is no
\* operator's turns its stage off with a warning, and the constructor never
\* ends with an exception.
C11_OperatorResolution ==
    (call.op = "__init__")
        => /\ pc = "idle"
           /\ last_op.outcome = "done"
           /\ (call.cfg_crossover_op \in SpecCrossoverOps)
                 => (Truthy(crossover_op) /\ ~getattr_raises(crossover_op))
           /\ (call.cfg_mutation_op \in SpecMutationOps)
                 => (Truthy(mutation_op) /\ ~getattr_raises(mutation_op))
           /\ (call.cfg_crossover_op \notin SpecCrossoverOps)
                 => /\ crossover_op = NoOp
                    /\ <<"warn", "Not using the crossover operator">> \in logged
           /\ (call.cfg_mutation_op \notin SpecMutationOps)
                 => /\ mutation_op = NoOp
                    /\ <<"warn", "Not using the mutation operator">> \in logged

\* C12: when a round that was not skipped ends, the mutations_per_policy
\* slots of eval_cache[k] hold, for every claimed key k, the children made
\* from parent k, and while the round writes the cache the slots of the
\* keys it did not claim stay as they were.
C12_CachePlacement ==
    [][/\ CompletesRound
            => \A k \in SetOf(frame.actor_x_ids) :
                 \A j \in 1 .. mutations_per_policy :
                    eval_cache'[k][j] = child(k)
       /\ (pc = "scatter")
            => \A k \in Keys \ claimed_for_mutation :
                 eval_cache'[k] = eval_cache[k]]_vars

\* C13: a round the timer starts runs in bootstrap mode exactly when
\* elites_map holds no more than random_init elites; the keys a round claims
\* are the keys it takes out of free_policy_keys, in steady state all of
\* them elites of elites_map; no step of a round changes elites_map.
C13_CandidateSource ==
    [][/\ (TimerTick /\ last_op'.outcome \in {"starved", "claimed"})
            => (last_op'.init <=> (Cardinality(elites_map) <= random_init))
       /\ (pc = "idle" /\ last_op'.outcome = "claimed")
            => LET X == SetOf(frame'.actor_x_ids)
               IN  /\ X \subseteq free_policy_keys
                   /\ X = free_policy_keys \ free_policy_keys'
                   /\ (~last_op'.init) => (X \subseteq elites_map)
       /\ (last_op'.outcome \in {"starved", "claimed", "throttled", "scatter",
                                 "completed"})
            => elites_map' = elites_map]_vars

\* the timer started a steady-state round that claimed elites while a free
\* key that backs no elite was left alone
C13_Witness ==
    /\ last_op.op = "maybe_mutate_new_batch"
    /\ last_op.outcome = "claimed"
    /\ ~last_op.init
    /\ frame.actor_x_ids # <<>>
    /\ frame.free0 \ elites_map # {}

\* the integer part of num / den (num >= 0, den > 0)
integer_part(num, den) ==
    CHOOSE t \in 0 .. num : den * t <= num /\ num < den * (t + 1)

\* C14 as stated: a steady-state round requires, and draws,
\* round(eval_batch_size * proportion_evo) parents.
C14_RoundedBatch ==
    LET B == py_round(eval_batch_size * proportion_evo_num, proportion_evo_den)
    IN  /\ (pc \in {"scatter", "complete"} /\ ~frame.init)
              => /\ frame.batch_size = B
                 /\ Cardinality(frame.free_keys) >= B
                 /\ (pc = "scatter") => Cardinality(SetOf(frame.actor_x_ids)) = B
        /\ (last_op.outcome = "starved" /\ ~last_op.init)
              => Cardinality(free_keys_of(FALSE)) < B

\* C14, amended: the batch size of a steady-state round is the integer part
\* of eval_batch_size * proportion_evo (int() cuts the fraction off); that
\* number is what the starvation test compares with the free elites and
\* what is drawn.
C14_TruncatedBatch ==
    LET B == integer_part(eval_batch_size * proportion_evo_num, proportion_evo_den)
    IN  /\ (pc \in {"scatter", "complete"} /\ ~frame.init)
              => /\ frame.batch_size = B
                 /\ Cardinality(frame.free_keys) >= B
                 /\ (pc = "scatter") => Cardinality(SetOf(frame.actor_x_ids)) = B
        /\ (last_op.outcome = "starved" /\ ~last_op.init)
              => Cardinality(free_keys_of(FALSE)) < B
        /\ \A e \in 0 .. (NumKeys + 1), n \in 0 .. proportion_evo_den :
              int_trunc(e * n, proportion_evo_den)
                 = integer_part(e * n, proportion_evo_den)

\* a steady-state round drawing one parent although two elites were free,
\* enough for the rounded batch size
C14_Witness ==
    /\ pc = "scatter"
    /\ ~frame.init
    /\ Cardinality(SetOf(frame.actor_x_ids))
          < py_round(eval_batch_size * proportion_evo_num, proportion_evo_den)
    /\ Cardinality(frame.free_keys)
          >= py_round(eval_batch_size * proportion_evo_num, proportion_evo_den)

\* C15: with several instances on one free_policy_keys, the keys the
\* instances have claimed and not yet released are pairwise disjoint, and a
\* key an instance is about to claim is still free.
C15_DisjointClaims ==
    \A i \in Instances :
        /\ \A j \in Instances \ {i} :
              instances[i].held \cap instances[j].held = {}
        /\ (instances[i].pc = "drawn")
              => SetOf(instances[i].actor_x_ids) \subseteq free_policy_keys

\* the tensors the spec's stages work on: those named as a weight or a bias
WeightBiasNames ==
    {n \in TensorNames : str_in("weight", n) \/ str_in("bias", n)}

\* C16: the child of evo is, tensor by tensor, the mutation of the
\* crossover of x and y when both stages are configured, the crossover of
\* x and y with crossover alone, the mutation of x with mutation alone, and
\* a copy of x with neither; the parents are after the call what they were
\* before it, and the child has the tensor names and shapes of x.
C16_PipelineComposition ==
    (call.op = "evo")
        => LET x == call.args.actor_x
               y == call.args.actor_y
               z == call.result
               c(n) == iso_dd(x[n], y[n], call.draws.crossover[n].a,
                              call.draws.crossover[n].b)
               mu(t, n) == gaussian_mutation(t, call.draws.mutation[n].m,
                                             call.draws.mutation[n].delta)
           IN  /\ args = call.args
               /\ DOMAIN z = DOMAIN x
               /\ \A n \in DOMAIN x : z[n].shape = x[n].shape
               /\ (Truthy(crossover_op) /\ Truthy(mutation_op))
                     => \A n \in WeightBiasNames : z[n] = mu(c(n), n)
               /\ (Truthy(crossover_op) /\ ~Truthy(mutation_op))
                     => \A n \in WeightBiasNames : z[n] = c(n)
               /\ (~Truthy(crossover_op) /\ Truthy(mutation_op))
                     => \A n \in WeightBiasNames : z[n] = mu(x[n], n)
               /\ (~Truthy(crossover_op) /\ ~Truthy(mutation_op))
                     => z = x

\* both stages on, and on some weight the mutation changed what the
\* crossover had made of the parents
C16_Witness ==
    /\ call.op = "evo"
    /\ Truthy(crossover_op) /\ Truthy(mutation_op)
    /\ \E n \in WeightBiasNames :
         /\ call.result[n] # iso_dd(call.args.actor_x[n], call.args.actor_y[n],
                                    call.draws.crossover[n].a,
                                    call.draws.crossover[n].b)
         /\ call.result[n] # call.args.actor_x[n]

\* C17: a tensor whose name has neither "weight" nor "bias" in it comes out
\* of evo with the value it has in parent x.
C17_PassThrough ==
    (call.op = "evo")
        => \A n \in TensorNames \ WeightBiasNames :
              call.result[n] = call.args.actor_x[n]

\* what an operator call computed before the clamp rule
unclamped ==
    IF call.op = "iso_dd"
    THEN iso_dd_z(call.args.x, call.args.y, call.draws.a, call.draws.b)
    ELSE gaussian_mutation_y(call.args.x, call.draws.m, call.draws.delta)

\* C18: the result of iso_dd and of gaussian_mutation is clamped to
\* [min_gene, max_gene] exactly when both bounds were given, a bound of 0
\* counting as given, and then every element is in that range; with one
\* bound or none given the result is returned as computed.
C18_ClampRule ==
    (call.op \in {"iso_dd", "gaussian_mutation"})
        => IF max.given /\ min.given
           THEN \A i \in DOMAIN call.result.v :
                   /\ min.value <= call.result.v[i]
                   /\ call.result.v[i] <= max.value
                   /\ call.result.v[i] =
                         IF unclamped.v[i] < min.value THEN min.value
                         ELSE IF unclamped.v[i] > max.value THEN max.value
                         ELSE unclamped.v[i]
           ELSE call.result = unclamped

\* the element at index i of the mutated tensor has a mask value below the
\* mutation rate
mask_selected(i) == call.draws.m.v[i] < mutation_rate

\* the noise drawn for the selected element at index i: deltas are dealt
\* out to the selected elements in row-major order
noise_at(i) ==
    LET shape == call.args.x.shape
        ki == CHOOSE k \in 1 .. numel(shape) : unravel(shape, k) = i
    IN  call.draws.delta[Cardinality({k \in 1 .. ki :
                                        mask_selected(unravel(shape, k))})]

\* the input with noise added at the selected elements and nowhere else
gated ==
    [call.args.x EXCEPT !.v = [i \in DOMAIN call.args.x.v |->
        IF mask_selected(i) THEN call.args.x.v[i] + noise_at(i)
        ELSE call.args.x.v[i]]]

\* C19 as stated: gaussian_mutation leaves every element whose mask value
\* is not below mutation_rate as it was; at rate 0 the output equals the
\* input, at rate 1 every element is selected; the input is not modified.
C19_GatingAsStated ==
    (call.op = "gaussian_mutation")
        => /\ \A i \in DOMAIN call.args.x.v :
                 (~mask_selected(i)) => call.result.v[i] = call.args.x.v[i]
           /\ (mutation_rate = 0) => call.result = call.args.x
           /\ (mutation_rate = 20)
                 => \A i \in DOMAIN call.args.x.v : mask_selected(i)
           /\ args = call.args

\* C19, amended: for a tensor of rank 1, 2 or 3 the output of
\* gaussian_mutation is the input with noise added at the elements whose
\* mask value is below mutation_rate and nowhere else, passed through the
\* operator's clamp rule: without clamping the unselected elements are
\* unchanged and rate 0 gives the input back; with clamping any element
\* outside the bounds, selected or not, is moved to the bound.  At rate 0
\* no element is selected, at rate 1 every element; the input is not
\* modified.
C19_GatingThenClamp ==
    (call.op = "gaussian_mutation")
        => /\ call.result = clamp_rule(gated)
           /\ (py_not(max) /\ py_not(min))
                 => /\ \A i \in DOMAIN call.args.x.v :
                         (~mask_selected(i))
                            => call.result.v[i] = call.args.x.v[i]
                    /\ (mutation_rate = 0) => call.result = call.args.x
           /\ Len(call.draws.delta)
                 = Cardinality({i \in DOMAIN call.args.x.v : mask_selected(i)})
           /\ (mutation_rate = 0)
                 => \A i \in DOMAIN call.args.x.v : ~mask_selected(i)
           /\ (mutation_rate = 20)
                 => \A i \in DOMAIN call.args.x.v : mask_selected(i)
           /\ args = call.args

\* a rank-3 tensor with one element selected and one not, both gene bounds
\* given, where the clamp moved the element that was not selected
C19_Witness ==
    /\ call.op = "gaussian_mutation"
    /\ max.given /\ min.given
    /\ Len(call.args.x.shape) = 3
    /\ \E i, j \in DOMAIN call.args.x.v :
         /\ mask_selected(i)
         /\ ~mask_selected(j)
         /\ call.result.v[j] # call.args.x.v[j]

\* the larger of the bootstrap and the steady-state batch size
LargerBatch ==
    IF batch_size_of(TRUE) >= batch_size_of(FALSE)
    THEN batch_size_of(TRUE) ELSE batch_size_of(FALSE)

\* C20: while only the timer starts rounds and the evaluator reports no
\* more than was submitted, queued_for_eval never exceeds
\* (2 * num_agents - 1) + B * mutations_per_policy, B the larger batch size.
C20_BoundedInFlight ==
    queued_for_eval <= (2 * num_agents - 1) + LargerBatch * mutations_per_policy

\* the bound is met: a tick found the counter one below the watermark and
\* its round added a full bootstrap batch
C20_Witness ==
    /\ queued_for_eval = (2 * num_agents - 1) + LargerBatch * mutations_per_policy
    /\ last_op.outcome = "completed"
    /\ reported_total > 0

====
